---- MODULE Spec2Model ----
(***************************************************************************)
(* Model of rotor's stream transport (src/transports/stream.rs): one       *)
(* Stream<C, S, P> connection driven by the reactor through accept,        *)
(* register, ready, timeout and wakeup.  The socket and the user protocol  *)
(* are the environment: every socket result and every protocol answer is   *)
(* a nondeterministic choice.  One step of the model is one handler call   *)
(* that does no socket I/O, or one iteration of one of ready's three       *)
(* drain loops (the socket operation together with the callback its match  *)
(* arm makes).                                                             *)
(***************************************************************************)
EXTENDS Naturals, Sequences, FiniteSets

VARIABLES
    pc,        \* where the connection is: see Positions
    inbuf,     \* Inner.inbuf: bytes read from the peer, not yet consumed
    outbuf,    \* Inner.outbuf: bytes queued by the protocol, not yet written
    readable,  \* Inner.readable
    writable,  \* Inner.writable
    fsm,       \* the protocol state P held by the Stream
    evset,     \* the EventSet of the current (or last) ready activation
    handler,   \* the handler called last: accept, register, ready, timeout, wakeup
    log,       \* socket operations and callbacks of the current (or last) handler call
    ops,       \* socket operations of this activation that did not end a loop
    eofCalls,  \* eof_received invocations over the connection's lifetime
    errCalls,  \* error_happened invocations over the connection's lifetime
    everRead,  \* a socket read has been attempted on this connection
    everRecv,  \* data_received has been invoked on this connection
    proto,     \* which implementation of Protocol the connection runs: see Protocols
    peerB,     \* all the bytes the peer sends on a socket whose bytes are followed
    peer,      \* ... those of them the socket has not yet handed to read_from
    wire,      \* ... and the bytes write_to has handed to the socket
    owed       \* output a callback queued while writable was set and that no
               \* write_to has been called on since

vars == <<pc, inbuf, outbuf, readable, writable, fsm, evset, handler, log, ops,
          eofCalls, errCalls, everRead, everRecv, proto, peerB, peer, wire, owed>>

----------------------------------------------------------------------------
(* Bounds of the model *)

\* longest inbuf / outbuf
MaxLen == 3
\* socket operations per activation answered Ok(n > 0) or Interrupted
MaxOps == 4
\* longest byte sequence of a peer whose bytes are followed
MaxEcho == 2

\* The values a byte takes.  The Stream never looks at a byte (it uses only
\* Buf::len and the counts read_from and write_to return), so one value
\* stands for all of them and a buffer is told by its length.
Bytes == {"a"}
\* the bytes of a peer whose bytes are followed: two values, so that order
\* and duplication show
EchoBytes == {"a", "b"}
\* The protocol state P is opaque to the Stream: two values tell a change
FsmStates == {"p0", "p1"}

\* sequences over S of length lo..hi
SeqsBetween(S, lo, hi) == UNION {[1..n -> S] : n \in lo..hi}

Drop(s, n) == SubSeq(s, n + 1, Len(s))
Last(s) == s[Len(s)]

----------------------------------------------------------------------------
(* Positions of the connection *)

Positions == {"socket",    \* a connected socket, before Stream::accept
              "none",      \* accept returned None: no connection exists
              "accepted",  \* the Stream exists, before register
              "idle",      \* in the reactor's hands (the last handler returned Continue)
              "write1",    \* ready: at the head of the first write loop (line 68)
              "read",      \* ready: at the head of the read loop (line 94)
              "write2",    \* ready: at the head of the second write loop (line 119)
              "stop"}      \* the last handler returned Async::Stop

WriteDrains == {"write1", "write2"}
\* io::Error kinds other than WouldBlock and Interrupted (the last match arm)
HardErrors == {"ConnectionReset", "BrokenPipe"}
EventSets == SUBSET {"readable", "writable"}

is_writable(ev) == "writable" \in ev
is_readable(ev) == "readable" \in ev

----------------------------------------------------------------------------
(* The protocol (trait Protocol) and the Transport handed to it *)

\* Inner::transport: the two buffers, mutably borrowed for one callback
transport(inb, outb) == [inbuf |-> inb, outbuf |-> outb]

\* What a callback can leave in the buffers through Transport::input() and
\* Transport::output(): it consumes a prefix of the input, and appends to the
\* output or consumes a prefix of it.
TransportUses(tr) ==
    { transport(Drop(tr.inbuf, k), o) :
        k \in 0..Len(tr.inbuf),
        o \in { tr.outbuf \o c : c \in SeqsBetween(Bytes, 0, MaxLen - Len(tr.outbuf)) }
              \cup { Drop(tr.outbuf, j) : j \in 0..Len(tr.outbuf) } }

\* ... when the callback takes all of input() and only appends to output(),
\* never removing from it
TransportAppends(tr) ==
    { transport(<<>>, tr.outbuf \o c) :
        c \in SeqsBetween(Bytes, 0, MaxLen - Len(tr.outbuf)) }

\* ... when the callback takes all of input() and leaves output() alone
TransportReads(tr) == transport(<<>>, tr.outbuf)

\* ... when the callback moves all of input() to output()
TransportEcho(tr) == transport(<<>>, tr.outbuf \o tr.inbuf)

\* The implementations of Protocol a connection is run with:
\*   "any"    every behaviour the trait allows;
\*   "append" a protocol that takes all its input and only appends to
\*            output(); in state "p0" it may still produce output, in state
\*            "p1" it has nothing more to send and stays there;
\*   "echo"   data_received moves all of input() to output(), the other
\*            callbacks are the trait's defaults.
Protocols == {"any", "append", "echo"}

\* what a callback given a Transport may do with the buffers
Uses(tr) ==
    CASE proto = "any" -> TransportUses(tr)
      [] proto = "append" ->
            IF fsm = "p0" THEN TransportAppends(tr) ELSE {TransportReads(tr)}
      [] proto = "echo" -> {TransportEcho(tr)}

\* the protocol states Protocol::accepted may return in Some
Accepted == IF proto = "echo" THEN {"p0"} ELSE FsmStates

\* the protocol states a callback may return
Successors ==
    CASE proto = "any" -> FsmStates
      [] proto = "append" -> IF fsm = "p0" THEN FsmStates ELSE {"p1"}
      [] proto = "echo" -> {fsm}

\* Async<P, ()> as returned by a callback, with the buffers it leaves
Continue(f, tr) == [async |-> "Continue", fsm |-> f, tr |-> tr]
Stop(tr) == [async |-> "Stop", fsm |-> "none", tr |-> tr]

\* Protocol::data_received(self, trans, scope) -> Async<Self, ()>
data_received(tr) ==
    { Continue(f, t) : f \in Successors, t \in Uses(tr) }
    \cup IF proto = "echo" THEN {} ELSE { Stop(t) : t \in Uses(tr) }

\* Protocol::data_transferred(self, trans, scope) -> Async<Self, ()>;
\* the trait's default is Continue(self, ())
data_transferred(tr) ==
    IF proto = "echo"
    THEN { Continue(fsm, tr) }
    ELSE { Continue(f, t) : f \in Successors, t \in Uses(tr) }
         \cup { Stop(t) : t \in Uses(tr) }

\* Protocol::timeout / Protocol::wakeup (self, scope): no Transport;
\* the trait's default is Continue(self, ())
scope_callback(tr) ==
    IF proto = "echo"
    THEN { Continue(fsm, tr) }
    ELSE { Continue(f, tr) : f \in Successors } \cup { Stop(tr) }

\* The socket.  Where a claim speaks of the bytes on the wire (the echo
\* protocol) the model follows them: read_from hands over what the peer sent,
\* in order, and write_to's bytes are recorded.  Elsewhere the peer's bytes
\* are unconstrained and the wire is not recorded.
Followed == proto = "echo"

\* what read_from can put into inbuf with Ok(n), n > 0
Incoming ==
    IF Followed
    THEN { SubSeq(peer, 1, n) : n \in 1..Len(peer) }
    ELSE SeqsBetween(Bytes, 1, MaxLen - Len(inbuf))

\* what the peer has left to send once read_from has taken c
Taken(c) == IF Followed THEN Drop(peer, Len(c)) ELSE peer

\* the wire once write_to has written c
Sent(c) == IF Followed THEN wire \o c ELSE wire

\* a callback that found `before` in outbuf and left `after` queued output
\* while the writable latch was set
Queued(before, after) == writable /\ Len(after) > Len(before)

\* async_try!: Stop makes the enclosing function return Async::Stop
async_try(r) == r.async = "Stop"

----------------------------------------------------------------------------
(* Control flow of Stream::ready between the loops *)

\* line 143: monad.map(..).map_result(..): the Stream goes back to the reactor
Return(rd) == [pc |-> "idle", readable |-> rd]

\* Mutant of IfWrite2: the second write-drain is left out
IfWrite2Skip(rd, wr, outb) == Return(rd)

\* Mutant of IfWrite2: the second write-drain does not consult the writable latch
IfWrite2NoLatch(rd, wr, outb) ==
    IF Len(outb) > 0
    THEN [pc |-> "write2", readable |-> rd]
    ELSE Return(rd)

\* line 118: the guard of the second write-drain
IfWrite2(rd, wr, outb) ==
    IF wr /\ Len(outb) > 0
    THEN [pc |-> "write2", readable |-> rd]
    ELSE Return(rd)


\* Mutant of IfRead: the read-drain is entered without setting the readable
\* latch
IfReadNoLatch(ev, rd, wr, outb) ==
    IF is_readable(ev)
    THEN [pc |-> "read", readable |-> rd]
    ELSE IfWrite2(rd, wr, outb)

\* lines 92-93: the guard of the read-drain, which sets the readable latch
IfRead(ev, rd, wr, outb) ==
    IF is_readable(ev)
    THEN [pc |-> "read", readable |-> TRUE]
    ELSE IfWrite2(rd, wr, outb)

\* Mutant of LoopRead: one read per activation instead of a drain
LoopReadOnce(rd, wr, outb) == IfWrite2(rd, wr, outb)

\* line 94: `loop`: the read loop has no condition of its own
LoopRead(rd, wr, outb) == [pc |-> "read", readable |-> rd]


\* Mutant of WhileWrite: a write loop makes one attempt and goes on
WhileWriteOnce(d, ev, rd, wr, outb) ==
    IF d = "write1" THEN IfRead(ev, rd, wr, outb) ELSE Return(rd)

\* lines 68 / 119: `while stream.outbuf.len() > 0`, and what follows the loop
WhileWrite(d, ev, rd, wr, outb) ==
    IF Len(outb) > 0
    THEN [pc |-> d, readable |-> rd]
    ELSE IF d = "write1" THEN IfRead(ev, rd, wr, outb) ELSE Return(rd)

\* Mutant of BreakWrite: the second write-drain falls through to the read-drain
\* as the first one does
BreakWriteReread(d, ev, rd, wr, outb) == IfRead(ev, rd, wr, outb)

\* lines 82 / 133: `break` out of a write loop
BreakWrite(d, ev, rd, wr, outb) ==
    IF d = "write1" THEN IfRead(ev, rd, wr, outb) ELSE Return(rd)


\* Mutant of IfWrite1: there is no first write-drain; output is written only
\* by the write-drain that follows the read-drain
IfWrite1Ignored(ev, rd, wr, outb) ==
    [pc |-> IfRead(ev, rd, wr, outb).pc,
     readable |-> IfRead(ev, rd, wr, outb).readable,
     writable |-> wr]

\* lines 66-67: the guard of the first write-drain, which sets the writable latch
IfWrite1(ev, rd, wr, outb) ==
    IF is_writable(ev) /\ Len(outb) > 0
    THEN [pc |-> "write1", readable |-> rd, writable |-> TRUE]
    ELSE [pc |-> IfRead(ev, rd, wr, outb).pc,
          readable |-> IfRead(ev, rd, wr, outb).readable,
          writable |-> wr]

----------------------------------------------------------------------------
(* Log entries *)

\* a socket operation of drain d ("write1", "read", "write2") and its result
Op(d, res) == <<d, res>>
\* a protocol callback and what it returned ("Continue", "Stop", or "()" );
\* for error_happened, the error it was given
Call(name, res) == <<"call", name, res>>
\* a callback of timeout or wakeup, with the protocol state it returned
CallRet(name, res, f) == <<"call", name, res, f>>

IsCall(e) == e[1] = "call"
IsSocketOp(e) == e[1] \in {"write1", "read", "write2"}

----------------------------------------------------------------------------
(* Initial state: a connected socket handed to Stream::accept *)

Socket(p, B) ==
    /\ proto = p
    /\ peerB = B
    /\ peer = B
    /\ wire = <<>>
    /\ owed = FALSE
    /\ pc = "socket"
    /\ inbuf = <<>>
    /\ outbuf = <<>>
    /\ readable = FALSE
    /\ writable = FALSE
    /\ fsm = "none"
    /\ evset = {}
    /\ handler = "none"
    /\ log = <<>>
    /\ ops = 0
    /\ eofCalls = 0
    /\ errCalls = 0
    /\ everRead = FALSE
    /\ everRecv = FALSE

\* any protocol, on a socket whose bytes are not followed
Init == Socket("any", <<>>)
\* a protocol that only appends to output()
InitAppend == Socket("append", <<>>)
\* the echo protocol, on a socket whose peer sends B
InitEcho == \E B \in SeqsBetween(EchoBytes, 0, MaxEcho) : Socket("echo", B)

lifetime == <<eofCalls, errCalls, everRead, everRecv>>
session == <<proto, peerB>>
buffers == <<inbuf, outbuf>>
latches == <<readable, writable>>

----------------------------------------------------------------------------
(* Stream::accept, lines 43-57 *)

\* Mutant of Accept: the connection starts with the writable latch clear, to
\* be set by the first writability event
AcceptNotWritable ==
    /\ pc = "socket"
    /\ handler' = "accept"
    /\ \/ /\ pc' = "none"
          /\ log' = <<Call("accepted", "None")>>
          /\ UNCHANGED <<fsm, inbuf, outbuf, readable, writable>>
       \/ /\ pc' = "accepted"
          /\ log' = <<Call("accepted", "Some")>>
          /\ fsm' \in Accepted
          /\ inbuf' = <<>>
          /\ outbuf' = <<>>
          /\ readable' = FALSE
          /\ writable' = FALSE
    /\ UNCHANGED <<evset, ops, lifetime>>
    /\ UNCHANGED <<session, peer, wire, owed>>

(* Stream::accept, lines 43-57 *)

Accept ==
    /\ pc = "socket"
    /\ handler' = "accept"
    /\ \/ /\ pc' = "none"                       \* Protocol::accepted gave None
          /\ log' = <<Call("accepted", "None")>>
          /\ UNCHANGED <<fsm, inbuf, outbuf, readable, writable>>
       \/ /\ pc' = "accepted"
          /\ log' = <<Call("accepted", "Some")>>
          /\ fsm' \in Accepted
          /\ inbuf' = <<>>
          /\ outbuf' = <<>>
          /\ readable' = FALSE
          /\ writable' = TRUE
    /\ UNCHANGED <<evset, ops, lifetime>>
    /\ UNCHANGED <<session, peer, wire, owed>>

\* Mutant of Register: registration clears the writable latch, to wait for
\* the first writability edge
RegisterClearsWritable ==
    /\ pc = "accepted"
    /\ pc' = "idle"
    /\ handler' = "register"
    /\ log' = <<>>
    /\ writable' = FALSE
    /\ UNCHANGED <<fsm, buffers, readable, evset, ops, lifetime>>
    /\ UNCHANGED <<session, peer, wire, owed>>

(* Stream::register, lines 148-151 *)
Register ==
    /\ pc = "accepted"
    /\ pc' = "idle"
    /\ handler' = "register"
    /\ log' = <<>>
    /\ UNCHANGED <<fsm, buffers, latches, evset, ops, lifetime>>
    /\ UNCHANGED <<session, peer, wire, owed>>

----------------------------------------------------------------------------
(* Stream::ready, lines 61-146 *)

\* lines 64-67, 92-93, 118: entry, up to the head of the first loop that runs
Ready(ev) ==
    /\ pc = "idle"
    /\ handler' = "ready"
    /\ evset' = ev
    /\ log' = <<>>
    /\ ops' = 0
    /\ pc' = IfWrite1(ev, readable, writable, outbuf).pc
    /\ readable' = IfWrite1(ev, readable, writable, outbuf).readable
    /\ writable' = IfWrite1(ev, readable, writable, outbuf).writable
    /\ UNCHANGED <<fsm, buffers, lifetime>>
    /\ UNCHANGED <<session, peer, wire, owed>>

\* lines 70-73 / 121-124: write_to gave Ok(0)
WriteOk0(d) ==
    /\ pc = d
    /\ log' = log \o <<Op(d, "Ok0"), Call("eof_received", "()")>>
    /\ eofCalls' = eofCalls + 1
    /\ pc' = "stop"
    /\ UNCHANGED <<fsm, buffers, latches, evset, handler, ops, errCalls,
                   everRead, everRecv>>
    /\ owed' = FALSE
    /\ UNCHANGED <<session, peer, wire>>

\* Mutant of WriteOk: a successful write is not reported to the protocol
WriteOkSilent(d) ==
    /\ pc = d
    /\ ops < MaxOps
    /\ ops' = ops + 1
    /\ \E n \in 1..Len(outbuf) :
          /\ log' = Append(log, Op(d, "Ok"))
          /\ wire' = Sent(SubSeq(outbuf, 1, n))
          /\ outbuf' = Drop(outbuf, n)
          /\ pc' = WhileWrite(d, evset, readable, writable, Drop(outbuf, n)).pc
          /\ readable' =
                WhileWrite(d, evset, readable, writable, Drop(outbuf, n)).readable
    /\ owed' = FALSE
    /\ UNCHANGED <<inbuf, fsm, writable, evset, handler, lifetime>>
    /\ UNCHANGED <<session, peer>>


\* Mutant of WriteOk: the bytes write_to has written stay in outbuf
WriteOkKeepsBytes(d) ==
    /\ pc = d
    /\ ops < MaxOps
    /\ ops' = ops + 1
    /\ \E n \in 1..Len(outbuf) :
       \E r \in data_transferred(transport(inbuf, outbuf)) :
          /\ log' = log \o <<Op(d, "Ok"), Call("data_transferred", r.async)>>
          /\ wire' = Sent(SubSeq(outbuf, 1, n))
          /\ inbuf' = r.tr.inbuf
          /\ outbuf' = r.tr.outbuf
          /\ owed' = Queued(outbuf, r.tr.outbuf)
          /\ IF async_try(r)
             THEN /\ pc' = "stop"
                  /\ UNCHANGED <<fsm, readable>>
             ELSE /\ fsm' = r.fsm
                  /\ pc' = WhileWrite(d, evset, readable, writable, r.tr.outbuf).pc
                  /\ readable' =
                        WhileWrite(d, evset, readable, writable, r.tr.outbuf).readable
    /\ UNCHANGED <<writable, evset, handler, lifetime>>
    /\ UNCHANGED <<session, peer>>

\* lines 74-79 / 125-130: write_to gave Ok(n), n > 0
WriteOk(d) ==
    /\ pc = d
    /\ ops < MaxOps
    /\ ops' = ops + 1
    /\ \E n \in 1..Len(outbuf) :
       \E r \in data_transferred(transport(inbuf, Drop(outbuf, n))) :
          /\ log' = log \o <<Op(d, "Ok"), Call("data_transferred", r.async)>>
          /\ wire' = Sent(SubSeq(outbuf, 1, n))
          /\ inbuf' = r.tr.inbuf
          /\ outbuf' = r.tr.outbuf
          /\ owed' = Queued(Drop(outbuf, n), r.tr.outbuf)
          /\ IF async_try(r)
             THEN /\ pc' = "stop"
                  /\ UNCHANGED <<fsm, readable>>
             ELSE /\ fsm' = r.fsm
                  /\ pc' = WhileWrite(d, evset, readable, writable, r.tr.outbuf).pc
                  /\ readable' =
                        WhileWrite(d, evset, readable, writable, r.tr.outbuf).readable
    /\ UNCHANGED <<writable, evset, handler, lifetime>>
    /\ UNCHANGED <<session, peer>>


\* Mutant of WriteWouldBlock: the would-block ends the loop but the writable
\* latch stays set
WriteWouldBlockKeepsLatch(d) ==
    /\ pc = d
    /\ log' = Append(log, Op(d, "WouldBlock"))
    /\ pc' = BreakWrite(d, evset, readable, writable, outbuf).pc
    /\ readable' = BreakWrite(d, evset, readable, writable, outbuf).readable
    /\ UNCHANGED <<fsm, buffers, writable, evset, handler, ops, lifetime>>
    /\ owed' = FALSE
    /\ UNCHANGED <<session, peer, wire>>

\* lines 80-83 / 131-134: write_to gave Err(WouldBlock)
WriteWouldBlock(d) ==
    /\ pc = d
    /\ log' = Append(log, Op(d, "WouldBlock"))
    /\ writable' = FALSE
    /\ pc' = BreakWrite(d, evset, readable, FALSE, outbuf).pc
    /\ readable' = BreakWrite(d, evset, readable, FALSE, outbuf).readable
    /\ UNCHANGED <<fsm, buffers, evset, handler, ops, lifetime>>
    /\ owed' = FALSE
    /\ UNCHANGED <<session, peer, wire>>

\* lines 84 / 135: write_to gave Err(Interrupted)
WriteInterrupted(d) ==
    /\ pc = d
    /\ ops < MaxOps
    /\ ops' = ops + 1
    /\ log' = Append(log, Op(d, "Interrupted"))
    /\ pc' = WhileWrite(d, evset, readable, writable, outbuf).pc
    /\ readable' = WhileWrite(d, evset, readable, writable, outbuf).readable
    /\ UNCHANGED <<fsm, buffers, writable, evset, handler, lifetime>>
    /\ owed' = FALSE
    /\ UNCHANGED <<session, peer, wire>>

\* Mutant of WriteError: the last arm retries, as the Interrupted arm does
WriteErrorRetried(d) ==
    /\ pc = d
    /\ ops < MaxOps
    /\ ops' = ops + 1
    /\ \E e \in HardErrors : log' = Append(log, Op(d, e))
    /\ pc' = WhileWrite(d, evset, readable, writable, outbuf).pc
    /\ readable' = WhileWrite(d, evset, readable, writable, outbuf).readable
    /\ UNCHANGED <<fsm, buffers, writable, evset, handler, lifetime>>
    /\ owed' = FALSE
    /\ UNCHANGED <<session, peer, wire>>

\* lines 85-88 / 136-139: write_to gave another error
WriteError(d) ==
    /\ pc = d
    /\ \E e \in HardErrors : log' = log \o <<Op(d, e), Call("error_happened", e)>>
    /\ errCalls' = errCalls + 1
    /\ pc' = "stop"
    /\ UNCHANGED <<fsm, buffers, latches, evset, handler, ops, eofCalls,
                   everRead, everRecv>>
    /\ owed' = FALSE
    /\ UNCHANGED <<session, peer, wire>>

\* Mutant of ReadOk0: there is no Ok(0) arm, so the Ok(_) arm takes the result
ReadOk0AsOk ==
    /\ pc = "read"
    /\ ops < MaxOps
    /\ ops' = ops + 1
    /\ everRead' = TRUE
    /\ everRecv' = TRUE
    /\ \E r \in data_received(transport(inbuf, outbuf)) :
          /\ log' = log \o <<Op("read", "Ok0"), Call("data_received", r.async)>>
          /\ inbuf' = r.tr.inbuf
          /\ outbuf' = r.tr.outbuf
          /\ owed' = (r.tr.outbuf # <<>> /\ (owed \/ Queued(outbuf, r.tr.outbuf)))
          /\ UNCHANGED peer
          /\ IF async_try(r)
             THEN /\ pc' = "stop"
                  /\ UNCHANGED <<fsm, readable>>
             ELSE /\ fsm' = r.fsm
                  /\ pc' = LoopRead(readable, writable, r.tr.outbuf).pc
                  /\ readable' = LoopRead(readable, writable, r.tr.outbuf).readable
    /\ UNCHANGED <<writable, evset, handler, eofCalls, errCalls>>
    /\ UNCHANGED <<session, wire>>

\* lines 96-99: read_from gave Ok(0)
ReadOk0 ==
    /\ pc = "read"
    /\ log' = log \o <<Op("read", "Ok0"), Call("eof_received", "()")>>
    /\ eofCalls' = eofCalls + 1
    /\ everRead' = TRUE
    /\ pc' = "stop"
    /\ UNCHANGED <<fsm, buffers, latches, evset, handler, ops, errCalls, everRecv>>
    /\ UNCHANGED <<session, peer, wire, owed>>

\* Mutant of ReadOk: the async_try! around data_received is missing, so a Stop
\* is only returned at the end of ready and the read loop goes on
ReadOkNoTry ==
    /\ pc = "read"
    /\ ops < MaxOps
    /\ ops' = ops + 1
    /\ everRead' = TRUE
    /\ everRecv' = TRUE
    /\ \E c \in Incoming :
       \E r \in data_received(transport(inbuf \o c, outbuf)) :
          /\ log' = log \o <<Op("read", "Ok"), Call("data_received", r.async)>>
          /\ peer' = Taken(c)
          /\ inbuf' = r.tr.inbuf
          /\ outbuf' = r.tr.outbuf
          /\ owed' = (r.tr.outbuf # <<>> /\ (owed \/ Queued(outbuf, r.tr.outbuf)))
          /\ fsm' = IF async_try(r) THEN fsm ELSE r.fsm
          /\ pc' = LoopRead(readable, writable, r.tr.outbuf).pc
          /\ readable' = LoopRead(readable, writable, r.tr.outbuf).readable
    /\ UNCHANGED <<writable, evset, handler, eofCalls, errCalls>>
    /\ UNCHANGED <<session, wire>>

\* lines 100-105: read_from gave Ok(n), n > 0
ReadOk ==
    /\ pc = "read"
    /\ ops < MaxOps
    /\ ops' = ops + 1
    /\ everRead' = TRUE
    /\ everRecv' = TRUE
    /\ \E c \in Incoming :
       \E r \in data_received(transport(inbuf \o c, outbuf)) :
          /\ log' = log \o <<Op("read", "Ok"), Call("data_received", r.async)>>
          /\ peer' = Taken(c)
          /\ inbuf' = r.tr.inbuf
          /\ outbuf' = r.tr.outbuf
          /\ owed' = (r.tr.outbuf # <<>> /\ (owed \/ Queued(outbuf, r.tr.outbuf)))
          /\ IF async_try(r)
             THEN /\ pc' = "stop"
                  /\ UNCHANGED fsm
                  /\ UNCHANGED readable
             ELSE /\ fsm' = r.fsm
                  /\ pc' = LoopRead(readable, writable, r.tr.outbuf).pc
                  /\ readable' = LoopRead(readable, writable, r.tr.outbuf).readable
    /\ UNCHANGED <<writable, evset, handler, eofCalls, errCalls>>
    /\ UNCHANGED <<session, wire>>


\* Mutant of ReadWouldBlock: the would-block ends the read loop but the
\* readable latch stays set
ReadWouldBlockKeepsLatch ==
    /\ pc = "read"
    /\ log' = Append(log, Op("read", "WouldBlock"))
    /\ everRead' = TRUE
    /\ pc' = IfWrite2(readable, writable, outbuf).pc
    /\ readable' = IfWrite2(readable, writable, outbuf).readable
    /\ UNCHANGED <<fsm, buffers, writable, evset, handler, ops, eofCalls,
                   errCalls, everRecv>>
    /\ UNCHANGED <<session, peer, wire, owed>>

\* lines 106-109: read_from gave Err(WouldBlock)
ReadWouldBlock ==
    /\ pc = "read"
    /\ log' = Append(log, Op("read", "WouldBlock"))
    /\ everRead' = TRUE
    /\ pc' = IfWrite2(FALSE, writable, outbuf).pc
    /\ readable' = IfWrite2(FALSE, writable, outbuf).readable
    /\ UNCHANGED <<fsm, buffers, writable, evset, handler, ops, eofCalls,
                   errCalls, everRecv>>
    /\ UNCHANGED <<session, peer, wire, owed>>

\* Mutant of ReadInterrupted: Interrupted is handled as WouldBlock is
ReadInterruptedAsWouldBlock ==
    /\ pc = "read"
    /\ ops < MaxOps
    /\ ops' = ops + 1
    /\ log' = Append(log, Op("read", "Interrupted"))
    /\ everRead' = TRUE
    /\ pc' = IfWrite2(FALSE, writable, outbuf).pc
    /\ readable' = IfWrite2(FALSE, writable, outbuf).readable
    /\ UNCHANGED <<fsm, buffers, writable, evset, handler, eofCalls, errCalls,
                   everRecv>>
    /\ UNCHANGED <<session, peer, wire, owed>>

\* line 110: read_from gave Err(Interrupted)
ReadInterrupted ==
    /\ pc = "read"
    /\ ops < MaxOps
    /\ ops' = ops + 1
    /\ log' = Append(log, Op("read", "Interrupted"))
    /\ everRead' = TRUE
    /\ pc' = LoopRead(readable, writable, outbuf).pc
    /\ readable' = LoopRead(readable, writable, outbuf).readable
    /\ UNCHANGED <<fsm, buffers, writable, evset, handler, eofCalls, errCalls,
                   everRecv>>
    /\ UNCHANGED <<session, peer, wire, owed>>

\* Mutant of ReadError: error_happened is called but ready does not return
ReadErrorNoReturn ==
    /\ pc = "read"
    /\ \E e \in HardErrors :
          log' = log \o <<Op("read", e), Call("error_happened", e)>>
    /\ errCalls' = errCalls + 1
    /\ everRead' = TRUE
    /\ pc' = LoopRead(readable, writable, outbuf).pc
    /\ readable' = LoopRead(readable, writable, outbuf).readable
    /\ UNCHANGED <<fsm, buffers, writable, evset, handler, ops, eofCalls, everRecv>>
    /\ UNCHANGED <<session, peer, wire, owed>>

\* lines 111-114: read_from gave another error
ReadError ==
    /\ pc = "read"
    /\ \E e \in HardErrors :
          log' = log \o <<Op("read", e), Call("error_happened", e)>>
    /\ errCalls' = errCalls + 1
    /\ everRead' = TRUE
    /\ pc' = "stop"
    /\ UNCHANGED <<fsm, buffers, latches, evset, handler, ops, eofCalls, everRecv>>
    /\ UNCHANGED <<session, peer, wire, owed>>

----------------------------------------------------------------------------
(* Stream::timeout, lines 153-158, and Stream::wakeup, lines 160-165 *)

\* Mutant of Timeout: the protocol state the callback returns is dropped and
\* the Stream keeps the one it had
TimeoutDropsState ==
    /\ pc = "idle"
    /\ handler' = "timeout"
    /\ \E r \in scope_callback(transport(inbuf, outbuf)) :
          /\ log' = <<CallRet("timeout", r.async, r.fsm)>>
          /\ pc' = IF async_try(r) THEN "stop" ELSE "idle"
    /\ UNCHANGED <<fsm, buffers, latches, evset, ops, lifetime>>
    /\ UNCHANGED <<session, peer, wire, owed>>

Timeout ==
    /\ pc = "idle"
    /\ handler' = "timeout"
    /\ \E r \in scope_callback(transport(inbuf, outbuf)) :
          /\ log' = <<CallRet("timeout", r.async, r.fsm)>>
          /\ IF async_try(r)
             THEN pc' = "stop" /\ UNCHANGED fsm
             ELSE pc' = "idle" /\ fsm' = r.fsm
    /\ UNCHANGED <<buffers, latches, evset, ops, lifetime>>
    /\ UNCHANGED <<session, peer, wire, owed>>

Wakeup ==
    /\ pc = "idle"
    /\ handler' = "wakeup"
    /\ \E r \in scope_callback(transport(inbuf, outbuf)) :
          /\ log' = <<CallRet("wakeup", r.async, r.fsm)>>
          /\ IF async_try(r)
             THEN pc' = "stop" /\ UNCHANGED fsm
             ELSE pc' = "idle" /\ fsm' = r.fsm
    /\ UNCHANGED <<buffers, latches, evset, ops, lifetime>>
    /\ UNCHANGED <<session, peer, wire, owed>>

----------------------------------------------------------------------------

Next ==
    \/ Accept
    \/ Register
    \/ \E ev \in EventSets : Ready(ev)
    \/ \E d \in WriteDrains : WriteOk0(d)
    \/ \E d \in WriteDrains : WriteOk(d)
    \/ \E d \in WriteDrains : WriteWouldBlock(d)
    \/ \E d \in WriteDrains : WriteInterrupted(d)
    \/ \E d \in WriteDrains : WriteError(d)
    \/ ReadOk0
    \/ ReadOk
    \/ ReadWouldBlock
    \/ ReadInterrupted
    \/ ReadError
    \/ Timeout
    \/ Wakeup

Spec == Init /\ [][Next]_vars

\* the connection of a protocol that only appends to output()
SpecAppend == InitAppend /\ [][Next]_vars

\* the connection of the echo protocol
SpecEcho == InitEcho /\ [][Next]_vars

\* the reactor delivers an event set with writability / with readability
ReadyWritable == \E ev \in EventSets : is_writable(ev) /\ Ready(ev)
ReadyReadable == \E ev \in EventSets : is_readable(ev) /\ Ready(ev)

\* SpecAppend with a fair reactor and socket: handlers run to their end, a
\* connection that keeps coming back to the reactor keeps getting writability
\* events, and a socket that is written to again and again takes bytes again
\* and again
FairAppend ==
    /\ SpecAppend
    /\ WF_vars(Next)
    /\ SF_vars(ReadyWritable)
    /\ SF_vars(WriteOk("write1"))

\* SpecEcho with fair delivery of readiness edges: as FairAppend, and a
\* connection that keeps coming back to the reactor keeps getting readability
\* events and a socket that is read again and again hands over what the peer
\* has sent
FairEcho ==
    /\ SpecEcho
    /\ WF_vars(Next)
    /\ SF_vars(ReadyReadable)
    /\ SF_vars(ReadOk)
    /\ SF_vars(ReadyWritable)
    /\ SF_vars(WriteOk("write1"))

----------------------------------------------------------------------------
(* Reading the log *)

\* ready has returned Async::Continue
ReadyContinued == pc = "idle" /\ handler = "ready"

Reads(l) == SelectSeq(l, LAMBDA e : e[1] = "read")
Calls(l, name) == SelectSeq(l, LAMBDA e : e[1] = "call" /\ e[2] = name)
Has(l, e) == \E i \in 1..Len(l) : l[i] = e

\* the activation's last read attempt returned WouldBlock
ReadDrained == Reads(log) # <<>> /\ Last(Reads(log)) = Op("read", "WouldBlock")

TypeOK ==
    /\ pc \in Positions
    /\ Len(inbuf) <= MaxLen
    /\ Len(outbuf) <= MaxLen
    /\ readable \in BOOLEAN
    /\ writable \in BOOLEAN
    /\ fsm \in FsmStates \cup {"none"}
    /\ evset \in EventSets
    /\ ops \in 0..MaxOps
    /\ proto \in Protocols
    /\ peerB \in SeqsBetween(EchoBytes, 0, MaxEcho)
    /\ Len(peer) <= Len(peerB)
    /\ Len(wire) <= Len(peerB)
    /\ owed \in BOOLEAN

----------------------------------------------------------------------------
(* Claims *)

\* C1: whenever ready returns Continue, outbuf is empty or writable is false:
\* no pending output is left behind while the socket is believed writable.
C1_NoPendingOutputWhileWritable ==
    ReadyContinued => (outbuf = <<>> \/ ~writable)

\* C1 witness: ready returned Continue after its second write-drain wrote
\* output that data_received had queued, and the latch is still set.
C1_Witness ==
    /\ ReadyContinued
    /\ Has(log, Op("write2", "Ok"))
    /\ Has(log, Op("read", "Ok"))
    /\ writable
    /\ outbuf = <<>>

\* C2: whenever ready returns Continue, the last read attempt of the
\* activation returned WouldBlock, or readable is false, or no read was
\* attempted (no readability in the event set, readable false); and an
\* activation whose event set contains readability never returns Continue
\* before a read has returned WouldBlock.
C2_ReadSideDrained ==
    ReadyContinued =>
        /\ \/ ReadDrained
           \/ ~readable
           \/ (Reads(log) = <<>> /\ ~is_readable(evset) /\ ~readable)
        /\ is_readable(evset) => ReadDrained

\* C2 witness: a read-drain that delivered data and then ran into WouldBlock.
C2_Witness ==
    /\ ReadyContinued
    /\ is_readable(evset)
    /\ Has(log, Op("read", "Ok"))
    /\ ReadDrained

IsTerminalCall(e) ==
    IsCall(e) /\ e[2] \in {"eof_received", "error_happened"}
IsStopCall(e) == IsCall(e) /\ e[3] = "Stop"
TerminalCalls(l) == SelectSeq(l, IsTerminalCall)

\* C3: over the connection's lifetime eof_received is invoked at most once and
\* error_happened at most once; the one invoked is the last event of the
\* connection: ready returns Stop, and no callback, socket operation or
\* handler call follows.
C3_TerminalCallbackOnceAndLast ==
    [][ /\ eofCalls' <= 1
        /\ errCalls' <= 1
        /\ (eofCalls' + errCalls' >= 1) =>
               /\ pc' = "stop"
               /\ handler' = "ready"
               /\ log' # <<>>
               /\ IsTerminalCall(Last(log'))
               /\ Len(TerminalCalls(log')) = 1
        /\ (eofCalls + errCalls >= 1) => UNCHANGED vars ]_vars

\* C3 witness: a hard read error after earlier activations: error_happened
\* was called once and the connection has stopped.
C3_Witness ==
    /\ pc = "stop"
    /\ errCalls = 1
    /\ eofCalls = 0
    /\ everRecv
    /\ Last(log) = Call("error_happened", "ConnectionReset")

\* C4: in every activation each read answered Ok(n > 0) is followed at once
\* by exactly one data_received, each write answered Ok(n > 0) by exactly one
\* data_transferred, and neither callback is invoked in any other place.
C4_DataCallbacksFollowOk ==
    \A i \in 1..Len(log) :
        /\ log[i] = Op("read", "Ok") =>
               i < Len(log) /\ IsCall(log[i + 1]) /\ log[i + 1][2] = "data_received"
        /\ (log[i][1] \in WriteDrains /\ log[i][2] = "Ok") =>
               i < Len(log) /\ IsCall(log[i + 1]) /\ log[i + 1][2] = "data_transferred"
        /\ (IsCall(log[i]) /\ log[i][2] = "data_received") =>
               i > 1 /\ log[i - 1] = Op("read", "Ok")
        /\ (IsCall(log[i]) /\ log[i][2] = "data_transferred") =>
               i > 1 /\ log[i - 1][1] \in WriteDrains /\ log[i - 1][2] = "Ok"

\* C4 witness: an activation with a successful write in each write-drain and
\* a successful read, each followed by its callback.
C4_Witness ==
    /\ Has(log, Op("write1", "Ok"))
    /\ Has(log, Op("read", "Ok"))
    /\ Has(log, Op("write2", "Ok"))
    /\ Len(Calls(log, "data_transferred")) = 2
    /\ Len(Calls(log, "data_received")) = 1

\* C5: a callback that returns Stop ends the activation at once: it is the
\* last entry of the log, the handler returns Stop, and nothing follows (no
\* callback, no socket operation, no second write-drain even with writable
\* set and output queued).
C5_StopShortCircuits ==
    [][ /\ \A i \in 1..Len(log') :
               IsStopCall(log'[i]) => (i = Len(log') /\ pc' = "stop")
        /\ (log # <<>> /\ IsStopCall(Last(log))) => UNCHANGED vars ]_vars

\* C5 witness: data_received returned Stop while writable was set and output
\* was queued; the output is discarded.
C5_Witness ==
    /\ pc = "stop"
    /\ log # <<>>
    /\ Last(log) = Call("data_received", "Stop")
    /\ writable
    /\ outbuf # <<>>

\* C6: a ready activation whose event set is empty is a no-op: no socket
\* operation, no callback, Continue, and inbuf, outbuf, readable, writable and
\* the protocol state as they were.
C6_EmptyEventSetIsNoOp ==
    [][ (pc = "idle" /\ handler' = "ready" /\ evset' = {}) =>
            /\ pc' = "idle"
            /\ log' = <<>>
            /\ UNCHANGED <<inbuf, outbuf, readable, writable, fsm>> ]_vars

\* C6 witness: ready returned from an empty event set with output still
\* queued behind a cleared writable latch.
C6_Witness ==
    /\ ReadyContinued
    /\ evset = {}
    /\ log = <<>>
    /\ outbuf # <<>>
    /\ inbuf # <<>>

\* C7 (as claimed): a ready activation whose event set holds writability
\* alone, entered with outbuf empty, returns with writable true whatever it
\* was at entry, after no socket write and no callback.
C7_WritabilityAloneSetsLatch ==
    [][ (pc = "idle" /\ handler' = "ready" /\ evset' = {"writable"}
                     /\ outbuf = <<>>) =>
            /\ writable'
            /\ pc' = "idle"
            /\ log' = <<>> ]_vars

\* C8: within one activation the socket operations come in the order first
\* write-drain, read-drain, second write-drain: no write of the first drain
\* follows a read or a write of the second drain, no read follows a write of
\* the second drain, a write that follows a read belongs to the second drain
\* and comes after the read that returned WouldBlock, and no read follows
\* that WouldBlock.
C8_WriteReadWriteOrder ==
    \A i, j \in 1..Len(log) :
        i < j =>
            /\ log[j][1] = "write1" => log[i][1] \notin {"read", "write2"}
            /\ log[j][1] = "read" => log[i][1] # "write2"
            /\ (log[i][1] = "read" /\ log[j][1] \in WriteDrains) =>
                   /\ log[j][1] = "write2"
                   /\ \E k \in i..(j - 1) : log[k] = Op("read", "WouldBlock")
            /\ log[i] = Op("read", "WouldBlock") => log[j][1] # "read"

\* C8 witness: readability and writability signalled with output queued: a
\* write of the first drain, then reads up to WouldBlock, then a write of the
\* second drain.
C8_Witness ==
    /\ evset = {"readable", "writable"}
    /\ log # <<>>
    /\ log[1] = Op("write1", "Ok")
    /\ Has(log, Op("read", "Ok"))
    /\ Has(log, Op("read", "WouldBlock"))
    /\ Last(log) = Op("write2", "WouldBlock")

\* reads answered Interrupted any number of times, then Ok(n > 0), then WouldBlock
InterruptedOkWouldBlock(r) ==
    /\ Len(r) >= 2
    /\ r[Len(r)] = Op("read", "WouldBlock")
    /\ r[Len(r) - 1] = Op("read", "Ok")
    /\ \A i \in 1..(Len(r) - 2) : r[i] = Op("read", "Interrupted")

\* C9: a socket operation answered Interrupted is retried in place: the step
\* invokes no callback and leaves the position in the loop, the latches, the
\* buffers and the protocol state alone, and the next socket operation is the
\* same one; reads answered Interrupted k times, then Ok(n > 0), then
\* WouldBlock give exactly one data_received and readable = false.
C9_InterruptedRetriedInPlace ==
    [][ /\ (log' # <<>> /\ log' = Append(log, Last(log'))
                        /\ Last(log')[2] = "Interrupted") =>
               /\ pc' = pc
               /\ Last(log')[1] = pc
               /\ UNCHANGED <<inbuf, outbuf, readable, writable, fsm>>
        /\ \A i \in 1..(Len(log') - 1) :
               (IsSocketOp(log'[i]) /\ log'[i][2] = "Interrupted") =>
                   log'[i + 1][1] = log'[i][1]
        /\ (pc' = "idle" /\ handler' = "ready"
                         /\ InterruptedOkWouldBlock(Reads(log'))) =>
               /\ Len(Calls(log', "data_received")) = 1
               /\ ~readable' ]_vars

\* C9 witness: read_from answered Interrupted twice, Ok(n > 0), WouldBlock.
C9_Witness ==
    /\ ReadyContinued
    /\ Reads(log) = <<Op("read", "Interrupted"), Op("read", "Interrupted"),
                      Op("read", "Ok"), Op("read", "WouldBlock")>>
    /\ Len(Calls(log, "data_received")) = 1
    /\ inbuf # <<>>
    /\ ~readable

IsOk0(e) == IsSocketOp(e) /\ e[2] = "Ok0"

\* C10: in each of the three loops a socket operation answered Ok(0) is
\* end-of-file: eof_received is invoked, ready returns Stop, no data_received
\* or data_transferred is invoked for it, nothing is retried or follows; and
\* when the first read of the connection is answered Ok(0), no data_received
\* was ever invoked.
C10_ZeroIsEof ==
    [][ /\ \A i \in 1..Len(log') :
               IsOk0(log'[i]) =>
                   /\ i + 1 = Len(log')
                   /\ log'[i + 1] = Call("eof_received", "()")
                   /\ pc' = "stop"
                   /\ eofCalls' = 1
        /\ (\E i \in 1..Len(log) : IsOk0(log[i])) => UNCHANGED vars
        /\ (~everRead /\ Has(log', Op("read", "Ok0"))) =>
               /\ ~everRecv'
               /\ Calls(log', "data_received") = <<>> ]_vars

\* C10 witness: the peer closes at once: the only socket operation of the
\* connection is a read answered Ok(0).
C10_Witness ==
    /\ pc = "stop"
    /\ log = <<Op("read", "Ok0"), Call("eof_received", "()")>>
    /\ ~everRecv
    /\ eofCalls = 1
    /\ inbuf = <<>>

IsHardError(e) == IsSocketOp(e) /\ e[2] \in HardErrors
IsOkOp(e) == IsSocketOp(e) /\ e[2] = "Ok"

\* C11: a socket operation that fails with an error other than WouldBlock or
\* Interrupted is followed at once by error_happened with that error, invoked
\* once, and ready returns Stop; error_happened is invoked in no other place;
\* the successful operations before it have each had their callback.
C11_HardErrorSurfacedOnce ==
    \A i \in 1..Len(log) :
        /\ IsHardError(log[i]) =>
               /\ i + 1 = Len(log)
               /\ log[i + 1] = Call("error_happened", log[i][2])
               /\ pc = "stop"
               /\ errCalls = 1
               /\ \A j \in 1..(i - 1) :
                      IsOkOp(log[j]) =>
                          /\ IsCall(log[j + 1])
                          /\ log[j + 1][2] =
                                 (IF log[j][1] = "read" THEN "data_received"
                                                       ELSE "data_transferred")
                          /\ log[j + 1][3] = "Continue"
        /\ (IsCall(log[i]) /\ log[i][2] = "error_happened") =>
               /\ i > 1
               /\ IsHardError(log[i - 1])
               /\ log[i][3] = log[i - 1][2]

\* C11 witness: a partial write, then a hard error on the next write: one
\* data_transferred, then error_happened, then Stop with output still queued.
C11_Witness ==
    /\ pc = "stop"
    /\ log = <<Op("write1", "Ok"), Call("data_transferred", "Continue"),
               Op("write1", "BrokenPipe"), Call("error_happened", "BrokenPipe")>>
    /\ outbuf # <<>>
    /\ errCalls = 1

\* C14: timeout and wakeup invoke their protocol callback once and nothing
\* else, and lift its result: Continue keeps the connection with the protocol
\* state the callback returned, Stop stops it; neither touches the socket,
\* inbuf, outbuf, readable or writable.
C14_TimeoutWakeupLift ==
    [][ (pc = "idle" /\ handler' \in {"timeout", "wakeup"}) =>
            /\ Len(log') = 1
            /\ IsCall(log'[1])
            /\ log'[1][2] = handler'
            /\ log'[1][3] \in {"Continue", "Stop"}
            /\ log'[1][3] = "Continue" => (pc' = "idle" /\ fsm' = log'[1][4])
            /\ log'[1][3] = "Stop" => pc' = "stop"
            /\ UNCHANGED <<inbuf, outbuf, readable, writable>> ]_vars

\* C14 witness: wakeup returned Continue with a new protocol state while
\* output was queued behind a cleared writable latch and input was unconsumed.
C14_Witness ==
    /\ pc = "idle"
    /\ handler = "wakeup"
    /\ log = <<CallRet("wakeup", "Continue", "p1")>>
    /\ fsm = "p1"
    /\ outbuf # <<>>
    /\ inbuf # <<>>
    /\ ~writable

IsAcceptedCall(e) == IsCall(e) /\ e[2] = "accepted"

\* C15: accepting a socket calls Protocol::accepted once, and never again;
\* on None no connection exists and nothing ever happens for it; on Some the
\* connection starts with inbuf and outbuf empty, readable false and writable
\* true, and register returns Continue and changes none of them.
C15_AcceptAndRegister ==
    [][ /\ (pc = "socket" /\ pc' # "socket") =>
               /\ handler' = "accept"
               /\ Len(log') = 1
               /\ IsAcceptedCall(log'[1])
               /\ log'[1][3] \in {"Some", "None"}
               /\ log'[1][3] = "None" => pc' = "none"
               /\ log'[1][3] = "Some" =>
                      /\ pc' = "accepted"
                      /\ inbuf' = <<>>
                      /\ outbuf' = <<>>
                      /\ ~readable'
                      /\ writable'
        /\ pc = "none" => UNCHANGED vars
        /\ pc = "accepted" =>
               /\ pc' = "idle"
               /\ handler' = "register"
               /\ log' = <<>>
               /\ UNCHANGED <<inbuf, outbuf, readable, writable, fsm>>
        /\ pc # "socket" =>
               \A i \in 1..Len(log') : ~IsAcceptedCall(log'[i]) ]_vars

\* C15 witness: the connection was accepted and registered and waits for its
\* first event.
C15_Witness ==
    /\ pc = "idle"
    /\ handler = "register"
    /\ fsm \in FsmStates
    /\ inbuf = <<>>
    /\ outbuf = <<>>
    /\ ~readable
    /\ writable

IsWouldBlock(e) == IsSocketOp(e) /\ e[2] = "WouldBlock"

\* the index of the first log entry a step from the current state appends:
\* inside a drain loop the log grows, elsewhere the handler starts a new log
FirstNew == IF pc \in {"write1", "read", "write2"} THEN Len(log) + 1 ELSE 1

\* C16: latches are cleared only by WouldBlock: a step that takes readable
\* from true to false is a socket read returning WouldBlock, a step that takes
\* writable from true to false is a socket write returning WouldBlock; and
\* every observed WouldBlock clears its latch and ends that drain loop, with
\* no callback invoked.
C16_LatchesClearedOnlyByWouldBlock ==
    [][ /\ (readable /\ ~readable') =>
               /\ pc = "read"
               /\ log' = Append(log, Op("read", "WouldBlock"))
        /\ (writable /\ ~writable') =>
               /\ pc \in WriteDrains
               /\ log' = Append(log, Op(pc, "WouldBlock"))
        /\ \A i \in FirstNew..Len(log') :
               IsWouldBlock(log'[i]) =>
                  /\ pc = log'[i][1]
                  /\ log' = Append(log, log'[i])
                  /\ pc' # pc
                  /\ pc = "read" => ~readable'
                  /\ pc \in WriteDrains => ~writable'
                  /\ UNCHANGED <<fsm, inbuf, outbuf>> ]_vars

\* C16 witness: one activation whose read-drain and second write-drain both
\* ran into WouldBlock; both latches are clear.
C16_Witness ==
    /\ ReadyContinued
    /\ Has(log, Op("read", "WouldBlock"))
    /\ Has(log, Op("write2", "WouldBlock"))
    /\ Has(log, Op("read", "Ok"))
    /\ ~readable
    /\ ~writable

IsWrite(e) == e[1] \in WriteDrains

\* C17: no socket write is attempted while writable is false and no socket
\* read while readable is false: the first write-drain runs only when the
\* event set contains writability and outbuf is non-empty, the read-drain only
\* when the event set contains readability, the second write-drain only when
\* writable is true and outbuf is non-empty; after a write returned
\* WouldBlock no further write is attempted in that activation.
C17_NoIoWhileLatchFalse ==
    /\ pc \in WriteDrains => writable /\ outbuf # <<>>
    /\ pc = "write1" => is_writable(evset)
    /\ pc = "read" => readable /\ is_readable(evset)
    /\ \A i \in 1..Len(log) :
          /\ log[i][1] = "write1" => is_writable(evset)
          /\ log[i][1] = "read" => is_readable(evset)
          /\ (IsWrite(log[i]) /\ IsWouldBlock(log[i])) =>
                /\ pc \notin WriteDrains
                /\ \A j \in (i + 1)..Len(log) : ~IsWrite(log[j])

\* C17 witness: the first write-drain ran into WouldBlock, the read-drain then
\* delivered data, and the activation returned with output still queued and
\* no second write-drain.
C17_Witness ==
    /\ ReadyContinued
    /\ Has(log, Op("write1", "WouldBlock"))
    /\ Has(log, Op("read", "Ok"))
    /\ ~Has(log, Op("write2", "WouldBlock"))
    /\ ~Has(log, Op("write2", "Ok"))
    /\ outbuf # <<>>
    /\ ~writable

Drains == {"write1", "read", "write2"}

\* the drains that logged a socket operation in this activation
DrainsEntered == { d \in Drains : \E i \in 1..Len(log) : log[i][1] = d }

\* C18 as stated: in an activation that returns Continue, every drain loop
\* that was entered ended by observing WouldBlock.
C18_WouldBlockSoleLoopEnd ==
    ReadyContinued => \A d \in DrainsEntered : Has(log, Op(d, "WouldBlock"))

\* C18, amended: a step taken inside a drain loop is a socket operation of
\* that loop; the loop is left only on WouldBlock, on Ok(0), a hard error or
\* a protocol Stop (which end the activation with Stop), or, for a write-drain,
\* when a write and its data_transferred callback leave outbuf empty; the
\* read-drain of an activation that returns Continue ends only by WouldBlock.
C18_DrainLoopsEnd ==
    [][ \A d \in Drains :
          pc = d =>
             /\ Len(log') > Len(log)
             /\ log'[Len(log) + 1][1] = d
             /\ pc' = d =>
                   /\ log'[Len(log) + 1][2] \in {"Ok", "Interrupted"}
                   /\ d \in WriteDrains => outbuf' # <<>>
             /\ pc' # d =>
                   \/ log' = Append(log, Op(d, "WouldBlock"))
                   \/ /\ pc' = "stop"
                      /\ \/ IsTerminalCall(Last(log'))
                         \/ IsStopCall(Last(log'))
                   \/ /\ d \in WriteDrains
                      /\ pc' # "stop"
                      /\ outbuf' = <<>>
                      /\ log'[Len(log) + 1] = Op(d, "Ok")
                      /\ Last(log') = Call("data_transferred", "Continue") ]_vars

\* C18 witness: the second write-drain retried an interrupted write, wrote
\* everything and ended with outbuf empty, no write having returned WouldBlock.
C18_Witness ==
    /\ ReadyContinued
    /\ ReadDrained
    /\ Has(log, Op("write2", "Interrupted"))
    /\ Last(log) = Call("data_transferred", "Continue")
    /\ ~Has(log, Op("write2", "WouldBlock"))
    /\ outbuf = <<>>
    /\ writable

\* the connection is in the reactor's hands: accept, register, or a handler
\* that returned Continue has given it back
Yielded == pc \in {"accepted", "idle"}

\* C19: the readable latch is false wherever the connection is in the
\* reactor's hands (after accept, after register, after every ready, timeout
\* or wakeup that returned Continue); it is true only inside a ready
\* activation whose event set contains readability, from the entry of the
\* read-drain until that drain's WouldBlock or the activation's Stop.
C19_ReadableFalseAtYield ==
    /\ Yielded => ~readable
    /\ readable =>
          /\ handler = "ready"
          /\ is_readable(evset)
          /\ pc \in {"read", "stop"}
          /\ \A i \in 1..Len(log) : log[i][1] # "write2"
          /\ ~Has(log, Op("read", "WouldBlock"))

\* C19 witness: an activation with both events wrote, read data up to
\* WouldBlock and gave the connection back with the latch clear again.
C19_Witness ==
    /\ ReadyContinued
    /\ evset = {"readable", "writable"}
    /\ Has(log, Op("write1", "Ok"))
    /\ Has(log, Op("read", "Ok"))
    /\ Has(log, Op("read", "WouldBlock"))
    /\ ~readable

\* C20 (no lost writability edge): with a protocol that only appends to
\* output(), wherever the connection yields to the reactor writable = false
\* implies outbuf is non-empty; so a writability event delivered while
\* writable is false always sets writable and enters the first write-drain,
\* which attempts a write.
C20_NoLostWritabilityEdge ==
    /\ [](Yielded /\ ~writable => outbuf # <<>>)
    /\ [][ (pc = "idle" /\ ~writable /\ handler' = "ready"
              /\ is_writable(evset')) =>
               /\ writable'
               /\ pc' = "write1" ]_vars
    /\ [](pc = "write1" /\ handler = "ready" => writable /\ outbuf # <<>>)

\* C20 witness: an append-only protocol's connection was blocked with output
\* queued, a writability event made it write, the socket took some bytes and
\* blocked again; the latch is clear and output is still queued.
C20_Witness ==
    /\ proto = "append"
    /\ ReadyContinued
    /\ is_writable(evset)
    /\ log = <<Op("write1", "Ok"), Call("data_transferred", "Continue"),
               Op("write1", "WouldBlock")>>
    /\ ~writable
    /\ outbuf # <<>>

\* the connection waits in the reactor with output a write WouldBlock left
Blocked == pc = "idle" /\ ~writable /\ outbuf # <<>>

\* the protocol stops adding output
Quiesces == <>[](fsm # "p0")

\* C12 as stated: output a callback queued while writable was set has been
\* offered to the socket by a write whenever a ready activation returns.
C12_OutputNeverStranded ==
    (handler = "ready" /\ pc \in {"idle", "stop"}) => ~owed

\* C12, amended: when a ready activation returns Continue, output a callback
\* queued while writable was set has been offered to the socket by a write;
\* a ready with writability in its event set that finds the connection
\* blocked sets writable and resumes writing; and with a reactor that keeps
\* delivering writability events, a socket that keeps taking bytes and a
\* protocol that stops adding output, a blocked connection's outbuf becomes
\* empty unless the connection stops.
C12_OutputOfferedAndDrained ==
    /\ [](ReadyContinued => ~owed)
    /\ [][ (Blocked /\ handler' = "ready" /\ is_writable(evset')) =>
               /\ writable'
               /\ pc' = "write1" ]_vars
    /\ Quiesces => (Blocked ~> (outbuf = <<>> \/ pc = "stop"))

\* C12 witness: one activation resumed writing and emptied outbuf in its
\* first write-drain, data_received then queued output with writable set,
\* and the second write-drain offered it to the socket, which blocked.
C12_Witness ==
    /\ proto = "append"
    /\ ReadyContinued
    /\ Has(log, Op("write1", "Ok"))
    /\ ~Has(log, Op("write1", "WouldBlock"))
    /\ Has(log, Op("read", "Ok"))
    /\ Has(log, Op("write2", "WouldBlock"))
    /\ Blocked
    /\ ~owed

IsPrefix(s, t) == Len(s) <= Len(t) /\ SubSeq(t, 1, Len(s)) = s

\* everything the peer sent has been written back and nothing is buffered
EchoDone == wire = peerB /\ inbuf = <<>> /\ outbuf = <<>>

\* C13 (echo round-trip): with the echo protocol, for every byte sequence the
\* peer sends, in any chunking and with any interleaving of WouldBlock and
\* Interrupted results and readiness events, the bytes written to the socket
\* are always a prefix of it (what is written, queued, received and still to
\* come is the peer's sequence, in order); and under fair delivery of
\* readiness edges, unless EOF or an error ends the connection, they
\* eventually equal it with inbuf and outbuf empty.
C13_EchoRoundTrip ==
    /\ [](IsPrefix(wire, peerB))
    /\ [](wire \o outbuf \o inbuf \o peer = peerB)
    /\ <>[](EchoDone \/ pc \in {"stop", "none"})

\* C13 witness: the peer's bytes, not all equal, came back complete, the last
\* of them by a write that resumed after a WouldBlock.
C13_Witness ==
    /\ proto = "echo"
    /\ ReadyContinued
    /\ Len(peerB) >= 2
    /\ peerB[1] # peerB[2]
    /\ Has(log, Op("write1", "Ok"))
    /\ EchoDone
====
